---- MODULE Spec2Model ----
(***************************************************************************)
(* Lennard-Jones visualizer (src/app.py): one script that the UI framework *)
(* re-runs from the top on every input change.  A run reads the three      *)
(* number inputs, derives r_min, U_min and U(r), samples the curve on a    *)
(* 1000-point grid, draws the potential plot and the two-sphere schematic, *)
(* shows three metrics and builds the CSV download.                        *)
(*                                                                         *)
(* Numbers.  The program computes in binary floating point.  The model     *)
(* computes the same expressions in exact rational arithmetic: a value is  *)
(* a reduced fraction of integers ("Rat") where 32-bit integers suffice,   *)
(* and a signed fraction of arbitrary-precision naturals                   *)
(* ("Big", little-endian digit sequences in base Base) for the potential.  *)
(* Rounding of the floating-point operations is therefore not modelled;    *)
(* the decimal rounding done by the format specifications is.              *)
(***************************************************************************)
EXTENDS Integers, Sequences, FiniteSets

(***************************************************************************)
(* Integer helpers                                                         *)
(***************************************************************************)
Abs(x) == IF x < 0 THEN 0 - x ELSE x

Sign(x) == IF x < 0 THEN 0 - 1 ELSE IF x = 0 THEN 0 ELSE 1

Max2(x, y) == IF x >= y THEN x ELSE y

Min2(x, y) == IF x <= y THEN x ELSE y

RECURSIVE GCD(_, _)
GCD(a, b) == IF b = 0 THEN a ELSE GCD(b, a % b)

RECURSIVE Pow10(_)
Pow10(k) == IF k = 0 THEN 1 ELSE 10 * Pow10(k - 1)

(***************************************************************************)
(* Rat: a reduced fraction [n |-> numerator, d |-> denominator > 0], or    *)
(* d = 0 for the quotient by zero (inf).                                   *)
(***************************************************************************)
Rat(n, d) ==
    LET g == GCD(Abs(n), Abs(d))
    IN IF d = 0 THEN [n |-> Sign(n), d |-> 0]
       ELSE [n |-> Sign(d) * (n \div g), d |-> Abs(d) \div g]

RAdd(a, b) ==
    LET g == GCD(a.d, b.d)
        l == (a.d \div g) * b.d
    IN Rat(a.n * (l \div a.d) + b.n * (l \div b.d), l)

RNeg(a) == [n |-> 0 - a.n, d |-> a.d]

RSub(a, b) == RAdd(a, RNeg(b))

RMul(a, b) ==
    LET g1 == GCD(Abs(a.n), b.d)
        g2 == GCD(Abs(b.n), a.d)
    IN IF g1 = 0 \/ g2 = 0 THEN Rat(a.n * b.n, a.d * b.d)
       ELSE Rat((a.n \div g1) * (b.n \div g2), (a.d \div g2) * (b.d \div g1))

RInv(a) == Rat(Sign(a.n) * a.d, Abs(a.n))

RDiv(a, b) == RMul(a, RInv(b))

RLess(a, b) ==
    LET g == GCD(a.d, b.d)
    IN a.n * (b.d \div g) < b.n * (a.d \div g)

RLeq(a, b) == a = b \/ RLess(a, b)

RMax(a, b) == IF RLess(a, b) THEN b ELSE a

(***************************************************************************)
(* Arbitrary-precision naturals: little-endian digits in base Base, no     *)
(* leading zero digit, << >> for zero.                                     *)
(***************************************************************************)
Base == 10000

RECURSIVE BigOfNat(_)
BigOfNat(n) == IF n = 0 THEN << >> ELSE <<n % Base>> \o BigOfNat(n \div Base)

RECURSIVE Trim(_)
Trim(a) ==
    IF a = << >> THEN a
    ELSE IF a[Len(a)] = 0 THEN Trim(SubSeq(a, 1, Len(a) - 1)) ELSE a

RECURSIVE ConvSum(_, _, _, _, _)
ConvSum(a, b, k, i, hi) ==
    IF i > hi THEN 0 ELSE a[i] * b[k + 1 - i] + ConvSum(a, b, k, i + 1, hi)

RECURSIVE Carry(_, _, _)
Carry(c, k, carry) ==
    IF k > Len(c)
    THEN IF carry = 0 THEN << >>
         ELSE <<carry % Base>> \o Carry(c, k, carry \div Base)
    ELSE LET t == c[k] + carry
         IN <<t % Base>> \o Carry(c, k + 1, t \div Base)

BigMul(a, b) ==
    IF a = << >> \/ b = << >> THEN << >>
    ELSE LET la == Len(a)
             lb == Len(b)
             c == [k \in 1..(la + lb - 1) |->
                      ConvSum(a, b, k, Max2(1, k + 1 - lb), Min2(k, la))]
         IN Carry(c, 1, 0)

RECURSIVE BigPow(_, _)
BigPow(a, n) ==
    IF n = 0 THEN <<1>>
    ELSE IF n = 1 THEN a
    ELSE IF n % 2 = 0 THEN LET h == BigPow(a, n \div 2) IN BigMul(h, h)
    ELSE BigMul(a, BigPow(a, n - 1))

RECURSIVE CmpFrom(_, _, _)
CmpFrom(a, b, k) ==
    IF k = 0 THEN 0
    ELSE IF a[k] < b[k] THEN 0 - 1
    ELSE IF a[k] > b[k] THEN 1
    ELSE CmpFrom(a, b, k - 1)

BigCmp(a, b) ==
    IF Len(a) < Len(b) THEN 0 - 1
    ELSE IF Len(a) > Len(b) THEN 1
    ELSE CmpFrom(a, b, Len(a))

RECURSIVE AddFrom(_, _, _, _)
AddFrom(a, b, k, carry) ==
    IF k > Len(a) /\ k > Len(b)
    THEN IF carry = 0 THEN << >> ELSE <<carry>>
    ELSE LET t == (IF k <= Len(a) THEN a[k] ELSE 0)
                  + (IF k <= Len(b) THEN b[k] ELSE 0) + carry
         IN <<t % Base>> \o AddFrom(a, b, k + 1, t \div Base)

BigAdd(a, b) == AddFrom(a, b, 1, 0)

RECURSIVE SubFrom(_, _, _, _)
SubFrom(a, b, k, borrow) ==
    IF k > Len(a) THEN << >>
    ELSE LET t == a[k] - (IF k <= Len(b) THEN b[k] ELSE 0) - borrow
         IN IF t < 0 THEN <<t + Base>> \o SubFrom(a, b, k + 1, 1)
            ELSE <<t>> \o SubFrom(a, b, k + 1, 0)

\* a - b for a >= b
BigSub(a, b) == Trim(SubFrom(a, b, 1, 0))

(***************************************************************************)
(* Big: a signed fraction [s |-> sign, n |-> |numerator|, d |-> denominator]*)
(* of naturals; d = << >> is nan (inf - inf).                              *)
(***************************************************************************)
NaN == [s |-> 0, n |-> << >>, d |-> << >>]

IsNaN(u) == u.d = << >>

BigOfRat(a) == [s |-> Sign(a.n), n |-> BigOfNat(Abs(a.n)), d |-> BigOfNat(a.d)]

\* x ** k for an integer k >= 1
BPow(x, k) ==
    [s |-> IF x.n = 0 THEN 0 ELSE IF x.n < 0 /\ k % 2 = 1 THEN 0 - 1 ELSE 1,
     n |-> BigPow(BigOfNat(Abs(x.n)), k),
     d |-> BigPow(BigOfNat(x.d), k)]

\* the signed difference of two signed magnitudes
SignedSub(sa, ma, sb, mb) ==
    IF sa = 0 THEN [s |-> 0 - sb, m |-> mb]
    ELSE IF sb = 0 THEN [s |-> sa, m |-> ma]
    ELSE IF sa # sb THEN [s |-> sa, m |-> BigAdd(ma, mb)]
    ELSE LET c == BigCmp(ma, mb)
         IN IF c = 0 THEN [s |-> 0, m |-> << >>]
            ELSE IF c > 0 THEN [s |-> sa, m |-> BigSub(ma, mb)]
            ELSE [s |-> 0 - sa, m |-> BigSub(mb, ma)]

BSub(a, b) ==
    IF a.d = b.d
    THEN LET t == SignedSub(a.s, a.n, b.s, b.n) IN [s |-> t.s, n |-> t.m, d |-> a.d]
    ELSE LET t == SignedSub(a.s, BigMul(a.n, b.d), b.s, BigMul(b.n, a.d))
         IN [s |-> t.s, n |-> t.m, d |-> BigMul(a.d, b.d)]

\* c * u for a Rat c
BScale(c, u) ==
    [s |-> Sign(c.n) * u.s,
     n |-> IF c.n = 0 THEN << >> ELSE BigMul(BigOfNat(Abs(c.n)), u.n),
     d |-> BigMul(BigOfNat(c.d), u.d)]

\* -1, 0, 1 as a < b, a = b, a > b
BCmp(a, b) == SignedSub(a.s, BigMul(a.n, b.d), b.s, BigMul(b.n, a.d)).s

BLess(a, b) == BCmp(a, b) < 0

BLeq(a, b) == BCmp(a, b) <= 0

\* the largest digit q with q * d <= cur, counted down from an estimate that
\* is not below it, with the product: [q, qd]
RECURSIVE FixDigit(_, _, _)
FixDigit(q, cur, d) ==
    LET qd == BigMul(<<q>>, d)
    IN IF BigCmp(qd, cur) > 0 THEN FixDigit(q - 1, cur, d) ELSE [q |-> q, qd |-> qd]

\* one digit of the quotient, for cur < Base * d and a normalised d (leading
\* digit >= Base / 2)
QuotDigit(cur, d) ==
    IF BigCmp(cur, d) < 0 THEN [q |-> 0, qd |-> << >>]
    ELSE LET n == Len(d)
             top == (IF Len(cur) > n THEN cur[n + 1] * Base ELSE 0) + cur[n]
         IN FixDigit(Min2(top \div d[n], Base - 1), cur, d)

\* long division, from digit k of a downwards, rem the remainder so far
RECURSIVE DivFrom(_, _, _, _)
DivFrom(a, d, k, rem) ==
    IF k = 0 THEN [q |-> << >>, r |-> rem]
    ELSE LET cur == IF rem = << >> /\ a[k] = 0 THEN << >> ELSE <<a[k]>> \o rem
             t == QuotDigit(cur, d)
             rest == DivFrom(a, d, k - 1, IF t.q = 0 THEN cur ELSE BigSub(cur, t.qd))
         IN [q |-> rest.q \o <<t.q>>, r |-> rest.r]

\* [q |-> a div d, r |-> f * (a mod d), d |-> f * d] for d # 0, where f is
\* the factor that normalises d
BigDivMod(a, d) ==
    LET f == <<Base \div (d[Len(d)] + 1)>>
        na == BigMul(a, f)
        nd == BigMul(d, f)
        k == Len(na) - Len(nd) + 1
    IN IF k < 1 THEN [q |-> << >>, r |-> na, d |-> nd]
       ELSE LET res == DivFrom(na, nd, k, SubSeq(na, k + 1, Len(na)))
            IN [q |-> Trim(res.q), r |-> res.r, d |-> nd]

(***************************************************************************)
(* f"{u:.kf}": the decimal text of u with k decimals, rounded half to even *)
(* on the exact value: [neg |-> a leading minus sign, digits |-> the       *)
(* digits read as a natural (round(|u| * 10^k)), dec |-> k].  nan gives    *)
(* the text "nan".                                                         *)
(***************************************************************************)
NanText == [neg |-> FALSE, digits |-> << >>, dec |-> 0 - 1]

Format(u, k) ==
    IF IsNaN(u) THEN NanText
    ELSE LET dm == BigDivMod(BigMul(u.n, BigOfNat(Pow10(k))), u.d)
             c == BigCmp(BigAdd(dm.r, dm.r), dm.d)
             odd == dm.q # << >> /\ dm.q[1] % 2 = 1
         IN [neg |-> u.s < 0,
             digits |-> IF c > 0 \/ (c = 0 /\ odd) THEN BigAdd(dm.q, <<1>>) ELSE dm.q,
             dec |-> k]

FormatRat(x, k) == Format(BigOfRat(x), k)

(***************************************************************************)
(* The number inputs (lines 21-27).  A value is entered in units of the    *)
(* input's step: 0.0001 eV for epsilon, 0.001 nm for sigma and r.          *)
(***************************************************************************)
EPS_UNIT == 10000

NM_UNIT == 1000

EPS_MIN == 1

EPS_DEFAULT == 103

SIG_MIN == 10

SIG_DEFAULT == 274

R_MIN == 1

R_DEFAULT == 350

\* how many steps above its default the distance input is taken
MaxClicks == 1

EpsilonInputs == {EPS_MIN, EPS_DEFAULT}

SigmaInputs == {SIG_MIN, SIG_DEFAULT}

RInputs == {R_MIN} \cup SigmaInputs \cup {R_DEFAULT + k : k \in 0..MaxClicks}

(***************************************************************************)
(* lj_U (lines 31-33)                                                      *)
(***************************************************************************)
\* x**m - x**k for integers m >= k >= 1, over the denominator x.d**m
PowDiff(x, m, k) ==
    LET p == BigOfNat(Abs(x.n))
        q == BigOfNat(x.d)
        sm == IF x.n = 0 THEN 0 ELSE IF x.n < 0 /\ m % 2 = 1 THEN 0 - 1 ELSE 1
        sk == IF x.n = 0 THEN 0 ELSE IF x.n < 0 /\ k % 2 = 1 THEN 0 - 1 ELSE 1
        t == SignedSub(sm, BigPow(p, m), sk, BigMul(BigPow(p, k), BigPow(q, m - k)))
    IN [s |-> t.s, n |-> t.m, d |-> BigPow(q, m)]

\* lj_elem with the two powers the wrong way round
lj_elem_sign(r, eps, sig) ==
    IF r.n = 0 THEN NaN
    ELSE LET x == RDiv(sig, r)
         IN BScale(RMul(Rat(0 - 4, 1), eps), PowDiff(x, 12, 6))

\* lj_elem with r / sig for sig / r
lj_elem_inverted(r, eps, sig) ==
    IF r.n = 0 THEN NaN
    ELSE LET x == RDiv(r, sig)
         IN BScale(RMul(Rat(4, 1), eps), PowDiff(x, 12, 6))

\* lj_elem with the 12-6 form of the well at sig: (sig/r)**12 - 2 (sig/r)**6
lj_elem_twice(r, eps, sig) ==
    IF r.n = 0 THEN NaN
    ELSE LET x == RDiv(sig, r)
         IN BScale(RMul(Rat(4, 1), eps),
                   BSub(BPow(x, 12), BScale(Rat(2, 1), BPow(x, 6))))

\* lj_elem with exponent 10 for 12
lj_elem_ten(r, eps, sig) ==
    IF r.n = 0 THEN NaN
    ELSE LET x == RDiv(sig, r)
         IN BScale(RMul(Rat(4, 1), eps), PowDiff(x, 10, 6))

\* one element of 4 * eps * ((sig / r)**12 - (sig / r)**6); a zero r gives
\* inf - inf = nan
lj_elem(r, eps, sig) ==
    IF r.n = 0 THEN NaN
    ELSE LET x == RDiv(sig, r)
         IN BScale(RMul(Rat(4, 1), eps), PowDiff(x, 12, 6))

\* np.asarray: a Python float becomes a 0-d array, an array stays as it is
asarray(r) == r

Scalar(v) == [ndim |-> 0, data |-> <<v>>]

Array(seq) == [ndim |-> 1, data |-> seq]

lj_U(r, eps, sig) ==
    LET a == asarray(r)
    IN [ndim |-> a.ndim,
        data |-> [i \in 1..Len(a.data) |-> lj_elem(a.data[i], eps, sig)]]

(***************************************************************************)
(* Derived reference points and the curve's domain (lines 36-45)           *)
(***************************************************************************)
\* 2 ** (1/6), to within 7e-14 of its value
TwoPowSixth == Rat(1270810, 1132163)

N == 1000

\* linspace without its end point (endpoint=False)
linspace_open(start, stop, num) ==
    LET step == RDiv(RSub(stop, start), Rat(num, 1))
    IN [i \in 1..num |-> RAdd(start, RMul(Rat(i - 1, 1), step))]

\* np.linspace(start, stop, num): num points, both ends included
linspace(start, stop, num) ==
    LET step == RDiv(RSub(stop, start), Rat(num - 1, 1))
    IN [i \in 1..num |->
           IF i = num THEN stop ELSE RAdd(start, RMul(Rat(i - 1, 1), step))]

(***************************************************************************)
(* State: the widget values, which persist from run to run; the script's   *)
(* position and its variables, which every run starts without (None); and  *)
(* what the run has put on the page.                                       *)
(***************************************************************************)
VARIABLES epsilon, sigma, r_value, pc, r_min, U_min, U_r, r_lo, r_hi, r, U,
          fig1, fig2, metrics, csv, download, ref

inputs == <<epsilon, sigma, r_value>>

derived == <<r_min, U_min, U_r>>

grid == <<r_lo, r_hi, r, U>>

page == <<fig1, fig2, metrics, csv, download>>

vars == <<inputs, pc, derived, grid, page, ref>>

None == [none |-> TRUE]

\* a run starts in a namespace of its own
FreshRun ==
    /\ pc' = "derive"
    /\ r_min' = None /\ U_min' = None /\ U_r' = None
    /\ r_lo' = None /\ r_hi' = None /\ r' = None /\ U' = None
    /\ fig1' = None /\ fig2' = None /\ metrics' = None
    /\ csv' = None /\ download' = None

Init ==
    /\ epsilon = Rat(EPS_DEFAULT, EPS_UNIT)
    /\ sigma = Rat(SIG_DEFAULT, NM_UNIT)
    /\ r_value = Rat(R_DEFAULT, NM_UNIT)
    /\ pc = "derive"
    /\ r_min = None /\ U_min = None /\ U_r = None
    /\ r_lo = None /\ r_hi = None /\ r = None /\ U = None
    /\ fig1 = None /\ fig2 = None /\ metrics = None
    /\ csv = None /\ download = None
    /\ ref = None

\* lines 21-27: the user sets the inputs to other admitted values, and the
\* script is run again from the top
SetInputs(T) ==
    /\ \E e \in EpsilonInputs, s \in SigmaInputs, v \in RInputs :
          /\ <<e, s, v>> \in T
          /\ <<e, s, v>> # <<epsilon.n * (EPS_UNIT \div epsilon.d),
                             sigma.n * (NM_UNIT \div sigma.d),
                             r_value.n * (NM_UNIT \div r_value.d)>>
          /\ epsilon' = Rat(e, EPS_UNIT)
          /\ sigma' = Rat(s, NM_UNIT)
          /\ r_value' = Rat(v, NM_UNIT)
    /\ FreshRun

ChangeInput == SetInputs(EpsilonInputs \X SigmaInputs \X RInputs)

\* r_min with 2 ** (1/6) written to two decimals
r_min_of_coarse(sig) == RMul(Rat(112, 100), sig)

\* lines 37-39
r_min_of(sig) == RMul(TwoPowSixth, sig)

Derive ==
    /\ pc = "derive"
    /\ r_min' = r_min_of(sigma)
    /\ U_min' = RNeg(epsilon)
    /\ U_r' = lj_U(Scalar(r_value), epsilon, sigma)
    /\ pc' = "sample"
    /\ UNCHANGED <<inputs, grid, page>>

\* a domain that starts at the origin
r_lo_of_zero(sig) == Rat(0, 1)

\* lines 42-45
r_lo_of(sig) == RMax(RMul(Rat(3, 10), sig), Rat(1, 100))

r_hi_of(sig) == RMul(Rat(4, 1), sig)

Sample ==
    /\ pc = "sample"
    /\ r_lo' = r_lo_of(sigma)
    /\ r_hi' = r_hi_of(sigma)
    /\ r' = Array(linspace(r_lo', r_hi', N))
    /\ U' = lj_U(r', epsilon, sigma)
    /\ pc' = "chart"
    /\ UNCHANGED <<inputs, derived, page>>

\* lines 52-79: the potential plot
Chart ==
    /\ pc = "chart"
    /\ fig1' = [curve |-> [x |-> r.data, y |-> U.data],
                hline |-> 0,
                point |-> <<r_value, U_r.data[1]>>,
                point_label |-> <<FormatRat(r_value, 3), Format(U_r.data[1], 4)>>,
                vlines |-> <<sigma, r_min>>,
                well |-> <<r_min, U_min>>,
                well_label |-> FormatRat(U_min, 4)]
    /\ pc' = "schematic"
    /\ UNCHANGED <<inputs, derived, grid, fig2, metrics, csv, download>>

\* pad with min for max
pad_of_min(rv, sig) ==
    IF RLess(RMul(Rat(12, 10), rv), RMul(Rat(12, 10), sig))
    THEN RMul(Rat(12, 10), rv) ELSE RMul(Rat(12, 10), sig)

\* line 93
pad_of(rv, sig) == RMax(RMul(Rat(12, 10), rv), RMul(Rat(12, 10), sig))

\* line 83
radius_of(sig) == RMul(Rat(18, 100), sig)

\* lines 83-107: the two-sphere schematic
Schematic ==
    /\ pc = "schematic"
    /\ LET radius == radius_of(sigma)
           cx_left == RMul(Rat(0 - 5, 10), r_value)
           cx_right == RMul(Rat(5, 10), r_value)
           pad == pad_of(r_value, sigma)
       IN fig2' = [circle_left |-> [x |-> cx_left, y |-> Rat(0, 1), radius |-> radius],
                   circle_right |-> [x |-> cx_right, y |-> Rat(0, 1), radius |-> radius],
                   xlim |-> <<RNeg(pad), pad>>,
                   ylim |-> <<RMul(RNeg(pad), Rat(4, 10)), RMul(pad, Rat(4, 10))>>,
                   line |-> <<cx_left, cx_right>>,
                   label |-> FormatRat(r_value, 3)]
    /\ pc' = "readout"
    /\ UNCHANGED <<inputs, derived, grid, fig1, metrics, csv, download>>

\* lines 110-114: the three metrics
Readout ==
    /\ pc = "readout"
    /\ metrics' = [sigma |-> FormatRat(sigma, 3),
                   r_min |-> FormatRat(r_min, 3),
                   U_r |-> Format(U_r.data[1], 4)]
    /\ pc' = "export"
    /\ UNCHANGED <<inputs, derived, grid, fig1, fig2, csv, download>>

\* a text buffer that outlives the run: it still holds an earlier run's lines
StringIO_kept == IF ref = None THEN << >> ELSE ref.snap.page[4]

\* line 125: io.StringIO(), a new empty text buffer (a sequence of lines)
StringIO == << >>

\* the rows of zip(r[1:], U): one step out of line
Rows_shifted(rs, us) ==
    [i \in 1..Min2(Len(rs.data) - 1, Len(us.data)) |->
        <<FormatRat(rs.data[i + 1], 6), Format(us.data[i], 8)>>]

\* lines 127-128: one line per pair of zip(r, U)
Rows(rs, us) ==
    [i \in 1..Min2(Len(rs.data), Len(us.data)) |->
        <<FormatRat(rs.data[i], 6), Format(us.data[i], 8)>>]

\* lines 125-130: the CSV download
Export ==
    /\ pc = "export"
    /\ csv' = (StringIO \o <<"r_nm,U_eV">>) \o Rows(r, U)
    /\ download' = [data |-> csv', file_name |-> "lj_potential.csv", mime |-> "text/csv"]
    /\ pc' = "done"
    /\ UNCHANGED <<inputs, derived, grid, fig1, fig2, metrics>>

\* line 129: a click on the download button runs the script again with
\* the inputs as they are
Rerun ==
    /\ pc = "done"
    /\ FreshRun
    /\ UNCHANGED inputs

Run == Derive \/ Sample \/ Chart \/ Schematic \/ Readout \/ Export

Next ==
    \/ ChangeInput /\ UNCHANGED ref
    \/ Rerun /\ UNCHANGED ref
    \/ Run /\ UNCHANGED ref

Spec == Init /\ [][Next]_vars

(***************************************************************************)
(* SpecHist: the same runs over three settings of the inputs, with ref     *)
(* recording the first completed run (its Parameters and everything it     *)
(* produced) and whether a run with other Parameters has completed since.  *)
(***************************************************************************)
HistInputs ==
    {<<EPS_DEFAULT, SIG_DEFAULT, R_DEFAULT>>,
     <<EPS_DEFAULT, SIG_MIN, R_DEFAULT>>,
     <<EPS_MIN, SIG_DEFAULT, SIG_DEFAULT>>}

ChangeInputHist == SetInputs(HistInputs)

Record ==
    ref' = IF pc' # "done" THEN ref
           ELSE IF ref = None
                THEN [snap |-> [inputs |-> inputs', derived |-> derived',
                                grid |-> grid', page |-> page'],
                      between |-> FALSE]
           ELSE IF inputs' = ref.snap.inputs THEN ref
           ELSE [ref EXCEPT !.between = TRUE]

NextHist ==
    \/ ChangeInputHist /\ Record
    \/ Rerun /\ Record
    \/ Run /\ Record

SpecHist == Init /\ [][NextHist]_vars

(***************************************************************************)
(* Properties                                                              *)
(***************************************************************************)
Zero == Rat(0, 1)

RECURSIVE BigProd(_)
BigProd(fs) == IF Len(fs) = 1 THEN fs[1] ELSE BigMul(fs[1], BigProd(Tail(fs)))

Pow6(k) == BigPow(BigOfNat(Abs(k)), 6)

Pow12(k) == BigPow(BigOfNat(Abs(k)), 12)

\* u = 4 eps [(sig/rr)^12 - (sig/rr)^6], stated without division as
\* u * rr^12 * sig.d^12 = 4 eps sig.n^6 (sig.n^6 rr.d^6 - sig.d^6 rr.n^6) rr.d^6
IsLJ(u, rr, eps, sig) ==
    LET t == SignedSub(1, BigMul(Pow6(sig.n), Pow6(rr.d)), 1, BigMul(Pow6(sig.d), Pow6(rr.n)))
    IN /\ ~IsNaN(u)
       /\ u.s = t.s
       /\ BigProd(<<u.n, Pow12(rr.n), BigOfNat(eps.d), Pow12(sig.d), Pow6(rr.d)>>)
            = BigProd(<<u.d, Pow12(rr.d), BigOfNat(4 * eps.n), Pow6(sig.n), t.m>>)

\* C1: lj_U returns 4*eps*[(sig/r)^12 - (sig/r)^6]: for the scalar r_value a
\* 0-d result holding that value, for the grid a result of the same shape
\* and length whose i-th element is the formula at the i-th distance; and the
\* call leaves eps, sig and the array r as they were.
C1_ElementWise ==
    [][/\ (pc = "derive" /\ pc' = "sample") =>
            /\ inputs' = inputs
            /\ U_r'.ndim = 0 /\ Len(U_r'.data) = 1
            /\ IsLJ(U_r'.data[1], r_value, epsilon, sigma)
       /\ (pc = "sample" /\ pc' = "chart") =>
            /\ inputs' = inputs
            /\ r' = Array(linspace(r_lo', r_hi', N))
            /\ U'.ndim = r'.ndim /\ Len(U'.data) = Len(r'.data)
            /\ \A i \in 1..Len(r'.data) :
                  IsLJ(U'.data[i], r'.data[i], epsilon, sigma)]_vars

C1_Witness ==
    /\ pc = "chart" /\ U_r # None /\ U # None
    /\ Len(U.data) = N /\ U.data[1].s = 1 /\ U.data[N].s = 0 - 1

\* C2: the distance the user entered and every grid point are > 0, so no
\* quotient sig / r is a quotient by zero and no potential value is nan; at
\* sigma = 0.01 the grid starts at r_lo = 0.01.
C2_NoZeroDistance ==
    /\ r_value.n > 0 /\ r_value.d > 0
    /\ U_r # None => ~IsNaN(U_r.data[1])
    /\ r # None => \A i \in 1..Len(r.data) : r.data[i].n > 0 /\ r.data[i].d > 0
    /\ U # None => \A i \in 1..Len(U.data) : ~IsNaN(U.data[i])
    /\ (r # None /\ sigma = Rat(SIG_MIN, NM_UNIT)) =>
          r_lo = Rat(1, 100) /\ r.data[1] = Rat(1, 100)

C2_Witness ==
    /\ sigma = Rat(SIG_MIN, NM_UNIT) /\ r_value = Rat(R_MIN, NM_UNIT)
    /\ U_r # None /\ U # None /\ r.data[1] = Rat(1, 100)

\* C3: the grid is 1000 strictly increasing, evenly spaced distances from
\* r_lo = max(0.3 sigma, 0.01) to r_hi = 4 sigma, both included, r_lo < r_hi,
\* and U pairs each with the potential at that distance.
C3_Grid ==
    r # None =>
      /\ r.ndim = 1 /\ Len(r.data) = 1000
      /\ r_lo \in {RMul(Rat(3, 10), sigma), Rat(1, 100)}
      /\ RLeq(RMul(Rat(3, 10), sigma), r_lo) /\ RLeq(Rat(1, 100), r_lo)
      /\ r_hi = RMul(Rat(4, 1), sigma)
      /\ r.data[1] = r_lo /\ r.data[1000] = r_hi /\ RLess(r_lo, r_hi)
      /\ \A i \in 1..999 :
            /\ RLess(r.data[i], r.data[i + 1])
            /\ RSub(r.data[i + 1], r.data[i]) = RSub(r.data[2], r.data[1])
      /\ U # None /\ U.ndim = 1 /\ Len(U.data) = 1000
      /\ pc = "chart" =>
            \A i \in 1..1000 : U.data[i] = lj_elem(r.data[i], epsilon, sigma)

C3_Witness ==
    /\ pc = "chart" /\ r # None /\ U # None
    /\ r_lo = RMul(Rat(3, 10), sigma) /\ r.data[1000] = RMul(Rat(4, 1), sigma)

\* C4: whenever a run has built the CSV, the CSV is the header row followed
\* by one row per point of the curve the run's chart drew, in order (r to 6
\* and U to 8 decimals), 1000 rows from r_lo to r_hi, and that curve is the
\* grid of the current Parameters.
C4_CsvIsChartGrid ==
    csv # None =>
      /\ fig1 # None /\ download # None /\ download.data = csv
      /\ fig1.curve = [x |-> r.data, y |-> U.data]
      /\ fig1.curve.x = linspace(r_lo_of(sigma), r_hi_of(sigma), N)
      /\ Len(csv) = 1001 /\ csv[1] = "r_nm,U_eV"
      /\ \A i \in 1..1000 :
            csv[i + 1] = <<FormatRat(fig1.curve.x[i], 6), Format(fig1.curve.y[i], 8)>>
      /\ csv[2][1] = FormatRat(r_lo, 6) /\ csv[1001][1] = FormatRat(r_hi, 6)

C4_Witness ==
    /\ pc = "done" /\ csv # None /\ Len(csv) = 1001
    /\ sigma # Rat(SIG_DEFAULT, NM_UNIT)

\* C5: a run that has completed with the Parameters of the recorded run has
\* produced exactly what the recorded run produced (derived scalars, grid,
\* charts, metrics and CSV), whatever ran in between.
C5_SameParametersSameOutput ==
    (pc = "done" /\ ref # None /\ inputs = ref.snap.inputs) =>
       /\ derived = ref.snap.derived
       /\ grid = ref.snap.grid
       /\ page = ref.snap.page

C5_Witness ==
    /\ pc = "done" /\ ref # None /\ ref.between
    /\ inputs = ref.snap.inputs

DefaultInputs ==
    inputs = <<Rat(EPS_DEFAULT, EPS_UNIT), Rat(SIG_DEFAULT, NM_UNIT), Rat(R_DEFAULT, NM_UNIT)>>

\* C6 as stated: with the default Parameters U(r) agrees with -0.00954 eV to
\* 4 decimal places.
C6_Original ==
    (DefaultInputs /\ U_r # None) =>
       Format(U_r.data[1], 4) = FormatRat(Rat(0 - 954, 100000), 4)

\* C6, amended: with the default Parameters U(r) is -0.00730 eV to 5 decimal
\* places, and the readout shows -0.0073.
C6_DefaultPotential ==
    (DefaultInputs /\ U_r # None) =>
       /\ Format(U_r.data[1], 5) = FormatRat(Rat(0 - 730, 100000), 5)
       /\ metrics # None => metrics.U_r = FormatRat(Rat(0 - 73, 10000), 4)

C6_Witness == DefaultInputs /\ metrics # None

\* C7: at r = sigma the potential is exactly zero, and the readout and the
\* chart's label show 0.0000.
C7_ZeroAtSigma ==
    /\ (U_r # None /\ r_value = sigma) =>
          /\ U_r.data[1].s = 0 /\ U_r.data[1].n = << >> /\ ~IsNaN(U_r.data[1])
          /\ fig1 # None => fig1.point_label[2] = [neg |-> FALSE, digits |-> << >>, dec |-> 4]
          /\ metrics # None => metrics.U_r = [neg |-> FALSE, digits |-> << >>, dec |-> 4]
    /\ U # None =>
          \A i \in 1..Len(U.data) :
             r.data[i] = sigma => U.data[i].s = 0 /\ U.data[i].n = << >>

C7_Witness == r_value = sigma /\ metrics # None /\ epsilon = Rat(EPS_DEFAULT, EPS_UNIT)

\* |a - b| <= tol
Within(a, b, tol) ==
    LET diff == BSub(a, b)
    IN BLeq([s |-> Abs(diff.s), n |-> diff.n, d |-> diff.d], tol)

\* C8: the potential at r_min is U_min = -eps to within 1e-9 * eps, so the
\* marker the chart puts at (r_min, U_min) lies on the curve.
C8_WellDepth ==
    r_min # None =>
      /\ U_min = RNeg(epsilon)
      /\ Within(lj_elem(r_min, epsilon, sigma), BigOfRat(U_min),
                BScale(Rat(1, 1000000000), BigOfRat(epsilon)))
      /\ fig1 # None => fig1.well = <<r_min, U_min>> /\ fig1.vlines[2] = r_min

C8_Witness == fig1 # None /\ fig1.well = <<r_min, U_min>> /\ sigma = Rat(SIG_MIN, NM_UNIT)

\* rr < r_min, as rr^6 < 2 sigma^6
Below(rr) == BLess(BPow(rr, 6), BScale(Rat(2, 1), BPow(sigma, 6)))

Negative(u) == u.s < 0

\* C9: along the grid U falls strictly while the distances are below r_min
\* and rises strictly, staying negative, once they are above it; r_lo is
\* below and r_hi above r_min; no sampled value is below -eps, and none
\* equals it (the minimum is at r_min alone).  U(r) at the input distance is
\* negative above r_min and never below -eps.
C9_SingleWell ==
    /\ pc = "chart" =>
          /\ Below(r_lo) /\ ~Below(r_hi)
          /\ \A i \in 1..(N - 1) :
                /\ Below(r.data[i + 1]) => BLess(U.data[i + 1], U.data[i])
                /\ ~Below(r.data[i]) =>
                      BLess(U.data[i], U.data[i + 1]) /\ Negative(U.data[i + 1])
          /\ \A i \in 1..N : BLess(BigOfRat(RNeg(epsilon)), U.data[i])
    /\ U_r # None =>
          /\ BLess(BigOfRat(RNeg(epsilon)), U_r.data[1])
          /\ ~Below(r_value) => Negative(U_r.data[1])

C9_Witness ==
    /\ pc = "chart" /\ Below(r.data[2]) /\ ~Below(r.data[N - 1])
    /\ BLess(U.data[2], U.data[1]) /\ BLess(U.data[N - 1], U.data[N])

\* C10: the circles have radius 0.18 sigma and centres (-r/2, 0), (r/2, 0),
\* r apart, and lie inside x in [-pad, pad], y in [-0.4 pad, 0.4 pad] with
\* pad = max(1.2 r, 1.2 sigma).
C10_CirclesFit ==
    fig2 # None =>
      LET rad == RMul(Rat(18, 100), sigma)
          half == RMul(Rat(1, 2), r_value)
      IN /\ fig2.circle_left = [x |-> RNeg(half), y |-> Zero, radius |-> rad]
         /\ fig2.circle_right = [x |-> half, y |-> Zero, radius |-> rad]
         /\ RSub(fig2.circle_right.x, fig2.circle_left.x) = r_value
         /\ fig2.xlim[1] = RNeg(fig2.xlim[2]) /\ fig2.ylim[1] = RNeg(fig2.ylim[2])
         /\ RLeq(RMul(Rat(12, 10), r_value), fig2.xlim[2])
         /\ RLeq(RMul(Rat(12, 10), sigma), fig2.xlim[2])
         /\ fig2.xlim[2] \in {RMul(Rat(12, 10), r_value), RMul(Rat(12, 10), sigma)}
         /\ fig2.ylim[2] = RMul(Rat(4, 10), fig2.xlim[2])
         /\ RLeq(RAdd(half, rad), fig2.xlim[2])
         /\ RLeq(fig2.xlim[1], RSub(RNeg(half), rad))
         /\ RLeq(rad, fig2.ylim[2]) /\ RLeq(fig2.ylim[1], RNeg(rad))

C10_Witness ==
    /\ fig2 # None /\ RLess(r_value, sigma)
    /\ fig2.xlim[2] = RMul(Rat(12, 10), sigma)
====
